---------------------------- MODULE Spec2Model ----------------------------
(***************************************************************************)
(* A model of pytest_testrail/plugin.py: the PyTestRailPlugin hooks        *)
(* (collection, per-phase report, session finish), the result accumulator, *)
(* the batch publisher and the error-recovery path.                        *)
(*                                                                         *)
(* Text is modelled as a sequence of one-character strings, so that the    *)
(* plugin's parsing (split, substring tests, the regular expressions) is   *)
(* computed character by character as Python computes it.  An optional    *)
(* value (Python's None or a value) is a sequence of length 0 or 1.        *)
(***************************************************************************)
EXTENDS Integers, Sequences, FiniteSets, TLC

\* ------------------------------------------------------------ text helpers

Digits == {"0", "1", "2", "3", "4", "5", "6", "7", "8", "9"}

NL == "\n"

None == <<>>

Some(v) == <<v>>

SetMin(S) == CHOOSE m \in S : \A n \in S : m <= n

\* sub occurs in s at index i
IsPrefixAt(s, sub, i) ==
    /\ i >= 1
    /\ i + Len(sub) - 1 <= Len(s)
    /\ \A k \in 1..Len(sub) : s[i + k - 1] = sub[k]

\* str.find from an index: the least index >= from where sub occurs, 0 if none
Find(s, sub, from) ==
    LET hits == {i \in from..(Len(s) - Len(sub) + 1) : IsPrefixAt(s, sub, i)}
    IN IF hits = {} THEN 0 ELSE SetMin(hits)

\* Python's `sub in s`
Contains(s, sub) == \E i \in 1..(Len(s) - Len(sub) + 1) : IsPrefixAt(s, sub, i)

\* str.startswith
StartsWith(s, sub) == IsPrefixAt(s, sub, 1)

\* str.split(sep) for a non-empty separator
RECURSIVE Split(_, _)
Split(s, sep) ==
    LET i == Find(s, sep, 1)
    IN IF i = 0 THEN <<s>>
       ELSE <<SubSeq(s, 1, i - 1)>> \o Split(SubSeq(s, i + Len(sep), Len(s)), sep)

\* str.replace(c, new) for a one-character c
RECURSIVE Replace(_, _, _)
Replace(s, c, new) ==
    IF s = <<>> THEN <<>>
    ELSE (IF Head(s) = c THEN new ELSE <<Head(s)>>) \o Replace(Tail(s), c, new)

\* s[-n:] for n > 0
LastChars(s, n) == IF Len(s) <= n THEN s ELSE SubSeq(s, Len(s) - n + 1, Len(s))

RECURSIVE Concat(_)
Concat(ss) == IF ss = <<>> THEN <<>> ELSE Head(ss) \o Concat(Tail(ss))

DigitVal(c) ==
    CASE c = "0" -> 0 [] c = "1" -> 1 [] c = "2" -> 2 [] c = "3" -> 3
      [] c = "4" -> 4 [] c = "5" -> 5 [] c = "6" -> 6 [] c = "7" -> 7
      [] c = "8" -> 8 [] c = "9" -> 9

DigitChar(d) ==
    CASE d = 0 -> "0" [] d = 1 -> "1" [] d = 2 -> "2" [] d = 3 -> "3"
      [] d = 4 -> "4" [] d = 5 -> "5" [] d = 6 -> "6" [] d = 7 -> "7"
      [] d = 8 -> "8" [] d = 9 -> "9"

\* int(s) for a non-empty string of decimal digits
RECURSIVE ToInt(_)
ToInt(s) ==
    IF Len(s) = 1 THEN DigitVal(s[1])
    ELSE 10 * ToInt(SubSeq(s, 1, Len(s) - 1)) + DigitVal(s[Len(s)])

\* str(n) for an integer n >= 0
RECURSIVE IntToText(_)
IntToText(n) ==
    IF n < 10 THEN <<DigitChar(n)>>
    ELSE IntToText(n \div 10) \o <<DigitChar(n % 10)>>

\* the index after the maximal run of digits that starts at index i
RECURSIVE DigitsEnd(_, _)
DigitsEnd(s, i) ==
    IF i <= Len(s) /\ s[i] \in Digits THEN DigitsEnd(s, i + 1) ELSE i

\* no line break in s[a..b]: the regular expressions' `.` does not match one
NoNewline(s, a, b) == \A k \in a..b : s[k] # NL

\* ------------------------------------------------------ program constants

\* TESTRAIL_TEST_STATUS
STATUS_PASSED == 1
STATUS_BLOCKED == 2
STATUS_FAILED == 5
STATUS_DEFERRED == 6
STATUS_NA == 7
STATUS_TERRAFORMERROR == 8

COMMENT_SIZE_LIMIT == 4000

T_case == <<"c","a","s","e">>
T_case_sp == <<"c","a","s","e"," ">>
T_TerraformException == <<"T","e","r","r","a","f","o","r","m","E","x","c","e","p","t","i","o","n">>
T_TerraformException_colon == T_TerraformException \o <<":"," ">>
T_backslash_n == <<"\\","n">>
T_Terraform_Exception_comment == <<"T","e","r","r","a","f","o","r","m"," ","E","x","c","e","p","t","i","o","n",":"," ">>
T_Test_parametrize == <<"#"," ","T","e","s","t"," ","p","a","r","a","m","e","t","r","i","z","e",":"," ","#","\n">>
T_Pytest_result == <<"#"," ","P","y","t","e","s","t"," ","r","e","s","u","l","t",":"," ","#","\n">>
T_Log_truncated == <<"L","o","g"," ","t","r","u","n","c","a","t","e","d","\n",".",".",".","\n">>
T_indent == <<" "," "," "," ">>
T_None == <<"N","o","n","e">>

\* PYTEST_TO_TESTRAIL_STATUS[outcome]; the host's outcomes are passed, failed, skipped
get_test_outcome(outcome) ==
    CASE outcome = "passed" -> STATUS_PASSED
      [] outcome = "failed" -> STATUS_FAILED
      [] outcome = "skipped" -> STATUS_BLOCKED
      [] outcome = "deferred" -> STATUS_DEFERRED
      [] outcome = "NA" -> STATUS_NA
      [] outcome = "terraformerror" -> STATUS_TERRAFORMERROR

\* re.search('[0-9]+$', test_id): the digits that end the id (`$` also matches
\* before one final line break); <<>> when the search finds nothing
TrailingDigits(test_id) ==
    LET t == IF test_id # <<>> /\ test_id[Len(test_id)] = NL
             THEN SubSeq(test_id, 1, Len(test_id) - 1) ELSE test_id
        starts == {i \in 1..Len(t) : \A k \in i..Len(t) : t[k] \in Digits}
    IN IF starts = {} THEN <<>> ELSE SubSeq(t, SetMin(starts), Len(t))

\* clean_test_ids raises (AttributeError on None) when an id has no final digits
clean_test_ids_raises(test_ids) ==
    \E i \in 1..Len(test_ids) : TrailingDigits(test_ids[i]) = <<>>

clean_test_ids(test_ids) ==
    [i \in 1..Len(test_ids) |-> ToInt(TrailingDigits(test_ids[i]))]

\* re.search('(.*)', defect_id): the id up to its first line break
clean_test_defects(defect_ids) ==
    [i \in 1..Len(defect_ids) |->
        LET d == defect_ids[i]
            n == Find(d, <<NL>>, 1)
        IN IF n = 0 THEN d ELSE SubSeq(d, 1, n - 1)]

\* str(list_of_str): "['a', 'b']" (ids hold no quote or backslash)
RECURSIVE ListReprItems(_)
ListReprItems(xs) ==
    IF xs = <<>> THEN <<>>
    ELSE <<"'">> \o Head(xs) \o <<"'">>
         \o (IF Len(xs) > 1 THEN <<",", " ">> ELSE <<>>) \o ListReprItems(Tail(xs))

ListRepr(xs) == <<"[">> \o ListReprItems(xs) \o <<"]">>

\* str(clean_test_defects(defectids)).replace('[', '').replace(']', '').replace("'", '')
defects_text(defectids) ==
    Replace(Replace(Replace(ListRepr(clean_test_defects(defectids)), "[", <<>>), "]", <<>>), "'", <<>>)

\* ------------------------------------------------------------ the session

\* sample marker values
S_C10 == <<"C","1","0">>
S_C5 == <<"C","5">>
S_C17 == <<"C","1","7">>
S_PF1 == <<"P","F","-","1">>
S_BR2 == <<"B","R","-","2">>
S_PARAMS == <<"{","'","x","'",":"," ","1","}">>

\* the number of test items the host collects
NumItems == 4

\* a cap on the accumulator's length, above what NumItems items can record
MaxResults == 8

ItemIds == 1..NumItems

\* item.get_closest_marker('testrail').kwargs.get('ids'): None without the marker
item_ids(i) ==
    CASE i = 1 -> Some(<<S_C10>>)
      [] i = 2 -> Some(<<S_C5, S_C17>>)
      [] i = 3 -> None
      [] i = 4 -> Some(<<S_C10>>)
      [] i = 5 -> Some(<<>>)
      [] OTHER -> Some(<<<<"C">> \o IntToText(i)>>)

\* item.get_closest_marker('testrail_defects').kwargs.get('defect_ids')
item_defect_ids(i) ==
    CASE i = 2 -> Some(<<S_PF1, S_BR2>>)
      [] OTHER -> None

\* str(item.callspec.params) when the item is parametrized
item_callspec(i) ==
    CASE i = 4 -> Some(S_PARAMS)
      [] OTHER -> None

\* the integer case ids of an item's marker
item_case_ids(i) ==
    IF item_ids(i) = None THEN <<>> ELSE clean_test_ids(item_ids(i)[1])

\* ------------------------------------------------------------ the inputs

\* str(rep.longrepr) of a failed assertion, of a failed Terraform fixture and
\* of a skip
S_assert == <<"a","s","s","e","r","t"," ","1"," ","=","="," ","2","\n","E"," "," ","x">>
S_terraform == <<"E"," ","T","e","r","r","a","f","o","r","m","E","x","c","e","p","t","i","o","n",":"," ","d","i","s","k"," ","f","u","l","l">>
S_skip == <<"(","'","t",".","p","y","'",","," ","3",","," ","'","S","k","i","p","p","e","d","'",")">>

\* the reports the host can deliver, by name: phase, outcome, longrepr and
\* duration (in tenths of a second)
Report(when, outcome, longrepr, duration) ==
    [when |-> when, outcome |-> outcome, longrepr |-> longrepr, duration |-> duration]

ReportOf(name) ==
    CASE name = "setup_passed" -> Report("setup", "passed", None, 4)
      [] name = "setup_terraform" -> Report("setup", "failed", Some(S_terraform), 15)
      [] name = "setup_skipped" -> Report("setup", "skipped", Some(S_skip), 0)
      [] name = "call_passed" -> Report("call", "passed", None, 25)
      [] name = "call_failed" -> Report("call", "failed", Some(S_assert), 26)
      [] name = "teardown_passed" -> Report("teardown", "passed", None, 1)

AllReports ==
    {"setup_passed", "setup_terraform", "setup_skipped", "call_passed", "call_failed",
     "teardown_passed"}

FewReports == {"setup_passed", "setup_skipped"}

\* error texts of a rejected batch
E_terraform == <<"c","a","s","e"," ","4","2"," ","f","a","i","l","e","d"," ","T","e","r","r","a","f","o","r","m","E","x","c","e","p","t","i","o","n",":"," ","d","i","s","k"," ","f","u","l","l","\\","n">>
E_terraform_many ==
    <<"c","a","s","e"," ","4","2"," ","x"," ","T","e","r","r","a","f","o","r","m","E","x","c","e","p","t","i","o","n",":"," ","a","\\","n","c","a","s","e"," ","7"," ","T","e","r","r","a","f","o","r","m","E","x","c","e","p","t","i","o","n",":"," ","b","\\","n","c","a","s","e"," ","4","2"," ","T","e","r","r","a","f","o","r","m","E","x","c","e","p","t","i","o","n",":"," ","c","\\","n">>
E_terraform_newline == <<"c","a","s","e"," ","4","2"," ","f","a","i","l","e","d"," ","T","e","r","r","a","f","o","r","m","E","x","c","e","p","t","i","o","n",":"," ","d","i","s","k"," ","f","u","l","l","\n">>
E_invalid_17 == <<"F","i","e","l","d"," ",":","r","e","s","u","l","t","s"," ","h","a","s"," ","i","n","v","a","l","i","d"," ","r","e","s","u","l","t","s"," ","(","c","a","s","e"," ","C","1","7"," ","u","n","k","n","o","w","n",")">>
E_invalid_17_bare == <<"i","n","v","a","l","i","d"," ","(","c","a","s","e"," ","1","7"," ",")">>
E_invalid_two == <<"(","c","a","s","e"," ","C","1","7"," ","u","n","k","n","o","w","n",")"," ","(","c","a","s","e"," ","9","9"," ","u","n","k","n","o","w","n",")">>
E_other == <<"I","n","t","e","r","n","a","l"," ","e","r","r","o","r">>
E_testcases == <<"u","n","k","n","o","w","n"," ","t","e","s","t","c","a","s","e","s">>
S_ok == <<"o","k">>

\* the run ids the service knows
RunIds == {3, 9, 11, 12}

\* one element of a batch response: what the plugin reads of it.  The
\* element is plain structured data, without a status_code attribute
Resp(comment, status_id, error) ==
    [comment |-> comment, status_id |-> status_id, error |-> error, status_code |-> None]

Rejected(error) == <<Resp(Some(<<>>), 0, Some(error))>>

\* the same answer from a client whose response elements carry the HTTP
\* status as a status_code attribute
WithStatusCode(response, code) ==
    [k \in 1..Len(response) |-> [response[k] EXCEPT !.status_code = Some(code)]]

\* the answers to add_results_for_cases, by name
BatchAnswer(name) ==
    CASE name = "ok" -> <<Resp(Some(S_ok), 1, None), Resp(Some(S_ok), 1, None)>>
      [] name = "echo_terraform" -> <<Resp(Some(S_terraform), 8, None), Resp(Some(S_ok), 1, None)>>
      [] name = "empty" -> <<>>
      [] name = "null_comment" -> <<Resp(None, 1, None)>>
      [] name = "terraform" -> Rejected(E_terraform)
      [] name = "terraform_many" -> Rejected(E_terraform_many)
      [] name = "terraform_newline" -> Rejected(E_terraform_newline)
      [] name = "invalid_17" -> Rejected(E_invalid_17)
      [] name = "invalid_17_bare" -> Rejected(E_invalid_17_bare)
      [] name = "invalid_two" -> Rejected(E_invalid_two)
      [] name = "other" -> Rejected(E_other)
      [] name = "testcases" -> Rejected(E_testcases)
      [] name = "terraform_echoed" -> <<Resp(Some(S_terraform), 8, Some(E_terraform))>>
      [] name = "terraform_coded" -> WithStatusCode(Rejected(E_terraform), 400)
      [] name = "terraform_many_coded" -> WithStatusCode(Rejected(E_terraform_many), 400)
      [] name = "terraform_newline_coded" -> WithStatusCode(Rejected(E_terraform_newline), 400)
      [] name = "invalid_17_coded" -> WithStatusCode(Rejected(E_invalid_17), 400)
      [] name = "invalid_17_bare_coded" -> WithStatusCode(Rejected(E_invalid_17_bare), 400)
      [] name = "invalid_two_coded" -> WithStatusCode(Rejected(E_invalid_two), 400)
      [] name = "other_coded" -> WithStatusCode(Rejected(E_other), 400)
      [] name = "testcases_coded" -> WithStatusCode(Rejected(E_testcases), 400)
      [] name = "terraform_echoed_coded" ->
            WithStatusCode(<<Resp(Some(S_terraform), 8, Some(E_terraform))>>, 400)

AllResponses ==
    {"ok", "echo_terraform", "empty", "null_comment", "terraform", "terraform_many",
     "terraform_newline", "invalid_17", "invalid_17_bare", "invalid_two", "other",
     "testcases", "terraform_echoed", "terraform_coded", "terraform_many_coded",
     "terraform_newline_coded", "invalid_17_coded", "invalid_17_bare_coded",
     "invalid_two_coded", "other_coded", "testcases_coded", "terraform_echoed_coded"}

FewResponses ==
    {"ok", "echo_terraform", "terraform_many_coded", "invalid_two_coded", "invalid_two"}

Failed == Some(<<"f","a","i","l">>)

\* the answers to get_run, by name
RunAnswer(name) ==
    CASE name = "open" -> [error |-> None, is_completed |-> FALSE]
      [] name = "completed" -> [error |-> None, is_completed |-> TRUE]
      [] name = "error" -> [error |-> Failed, is_completed |-> FALSE]

PlanEntries == <<<<[id |-> 11, is_completed |-> FALSE], [id |-> 13, is_completed |-> TRUE]>>,
                 <<[id |-> 12, is_completed |-> FALSE]>>>>

\* the answers to get_plan, by name
PlanAnswer(name) ==
    CASE name = "open" -> [error |-> None, is_completed |-> FALSE, entries |-> PlanEntries]
      [] name = "completed" -> [error |-> None, is_completed |-> TRUE, entries |-> PlanEntries]
      [] name = "error" -> [error |-> Failed, is_completed |-> FALSE, entries |-> <<>>]

Availabilities == {"open", "completed", "error"}

\* the answers to add_run, by name
AddRunAnswer(name) ==
    CASE name = "created" -> [error |-> None, id |-> 9]
      [] name = "error" -> [error |-> Failed, id |-> 0]

Test(case_id, status_id) == [case_id |-> case_id, status_id |-> status_id]

\* the answers to get_tests, by name
TestsAnswer(name) ==
    CASE name = "none_blocked" ->
            [error |-> None, tests |-> <<Test(5, 1), Test(10, 3), Test(17, 3)>>]
      [] name = "case_5_blocked" -> [error |-> None, tests |-> <<Test(5, 2), Test(10, 1)>>]
      [] name = "error" -> [error |-> Failed, tests |-> <<>>]

TestsAnswers == {"none_blocked", "case_5_blocked", "error"}

Config(run_id, plan_id, publish_blocked, close_on_complete, skip_missing, custom_comment, version) ==
    [run_id |-> run_id, plan_id |-> plan_id, publish_blocked |-> publish_blocked,
     close_on_complete |-> close_on_complete, skip_missing |-> skip_missing,
     custom_comment |-> custom_comment, version |-> version,
     include_all |-> FALSE, project_id |-> 1, suite_id |-> 2]

\* the service of a session: the name of its answer to each request
Service(run, plan, add_run, tests, batch) ==
    [run |-> run, plan |-> plan, add_run |-> add_run, tests |-> tests, batch |-> batch]

\* sessions with every kind of report, published to an open run that accepts
\* the batch
ReportSessions ==
    {[config |-> Config(3, 0, TRUE, FALSE, FALSE, c[1], c[2]),
      service |-> Service("open", "open", "created",
                          [r \in RunIds |-> "none_blocked"], [r \in RunIds |-> "ok"]),
      host |-> [items |-> ItemIds, reports |-> AllReports]] :
        c \in {<<None, <<>>>>, <<Some(<<"n","i","g","h","t","l","y">>), <<"1",".","2">>>>}}

\* sessions with every configuration of run id and plan id and every answer
\* to the queries of collection
ModeSessions ==
    {[config |-> Config(ids[1], ids[2], flags[1], flags[2], flags[3], None, <<>>),
      service |-> Service(run, plan, add_run,
                          [r \in RunIds |-> tests], [r \in RunIds |-> "ok"]),
      host |-> [items |-> {2}, reports |-> FewReports]] :
        ids \in {0, 3} \X {0, 7},
        flags \in BOOLEAN \X BOOLEAN \X BOOLEAN,
        run \in Availabilities, plan \in Availabilities, add_run \in {"created", "error"},
        tests \in {"none_blocked", "error"}}

\* sessions that publish to one open run, with every answer to the batch
RunSessions ==
    {[config |-> Config(3, 0, blocked = "unasked", FALSE, FALSE, None, <<>>),
      service |-> Service("open", "open", "created",
                          [r \in RunIds |-> IF blocked = "unasked" THEN "none_blocked"
                                            ELSE blocked],
                          [r \in RunIds |-> batch]),
      host |-> [items |-> {1, 2}, reports |-> {"setup_passed"}]] :
        blocked \in {"unasked"} \cup TestsAnswers,
        batch \in AllResponses}

\* sessions that publish to the two open runs of a plan
PlanSessions ==
    {[config |-> Config(0, 7, blocked = <<"unasked">>, closing, FALSE, None, <<>>),
      service |-> Service("open", "open", "created",
                          [r \in RunIds |-> IF blocked = <<"unasked">> THEN "none_blocked"
                                            ELSE IF r = 11 THEN blocked[1] ELSE blocked[2]],
                          [r \in RunIds |-> IF r = 11 THEN batch[1] ELSE batch[2]]),
      host |-> [items |-> {1, 2}, reports |-> {"setup_passed"}]] :
        blocked \in {<<"unasked">>} \cup (TestsAnswers \X TestsAnswers),
        closing \in BOOLEAN,
        batch \in FewResponses \X FewResponses}

Sessions == ReportSessions \cup ModeSessions \cup RunSessions \cup PlanSessions

VARIABLES
    pc,           \* "collect", then "run" (reports, until session finish), then "done";
                  \* "collection_raised" or "sessionfinish_raised" when the hook raised
    raised,       \* the exception that left a hook, "" when none did
    testrun_id,   \* self.testrun_id
    testplan_id,  \* self.testplan_id
    results,      \* self.results
    processed,    \* the items whose testrail_processed attribute is set
    skip_marked,  \* the items given a skip marker in collection
    requests,     \* the calls made on self.client, in order
    seen,         \* the items a setup or call report was delivered for
    delivered,    \* first: the report each recorded item was recorded from; again:
                  \* the recorded items that got a later setup or call report
    config,       \* the constructor's arguments
    service,      \* what the external service answers to each request
    host          \* the items of the session and the reports the host can deliver

vars == <<pc, raised, testrun_id, testplan_id, results, processed, skip_marked,
          requests, seen, delivered, config, service, host>>

\* ------------------------------------------------------ result accumulator

\* add_result with the status of the comment at line 340 ("from 5 to 6"):
\* FAILED with the marker text becomes deferred
add_result_deferred(rs, test_ids, status, longrepr, defects, duration, test_parametrize) ==
    LET comment == IF longrepr = None THEN T_None ELSE longrepr[1]
        st == IF status = STATUS_FAILED /\ Contains(comment, T_TerraformException)
              THEN STATUS_DEFERRED ELSE status
    IN rs \o [k \in 1..Len(test_ids) |->
                [case_id |-> test_ids[k],
                 status_id |-> st,
                 comment |-> comment,
                 duration |-> duration,
                 defects |-> defects,
                 test_parametrize |-> test_parametrize]]

\* add_result, lines 335-352: one record per id; a non-str comment is
\* converted with str (None gives "None"); FAILED with the marker text
\* becomes the Terraform status
add_result(rs, test_ids, status, longrepr, defects, duration, test_parametrize) ==
    LET comment == IF longrepr = None THEN T_None ELSE longrepr[1]
        st == IF status = STATUS_FAILED /\ Contains(comment, T_TerraformException)
              THEN STATUS_TERRAFORMERROR ELSE status
    IN rs \o [k \in 1..Len(test_ids) |->
                [case_id |-> test_ids[k],
                 status_id |-> st,
                 comment |-> comment,
                 duration |-> duration,
                 defects |-> defects,
                 test_parametrize |-> test_parametrize]]

\* records_report without the test of the processed flag (line 234)
records_report_unflagged(i, when) ==
    /\ item_ids(i) # None
    /\ when \in {"setup", "call"}
    /\ item_ids(i)[1] # <<>>

\* records_report with the processed flag honoured for setup reports only, so
\* that a call report is recorded as well
records_report_call_too(i, when) ==
    /\ item_ids(i) # None
    /\ when \in {"setup", "call"}
    /\ item_ids(i)[1] # <<>>
    /\ (i \notin processed \/ when = "call")

\* the part of pytest_runtest_makereport guarded by the marker, the phase,
\* the ids and the processed flag (lines 230-234)
records_report(i, when) ==
    /\ item_ids(i) # None
    /\ when \in {"setup", "call"}
    /\ item_ids(i)[1] # <<>>
    /\ i \notin processed

\* pytest_runtest_makereport, lines 217-253
pytest_runtest_makereport(i, name) ==
    LET rep == ReportOf(name) IN
    /\ pc = "run"
    /\ i \in host.items
    /\ name \in host.reports
    /\ i \in skip_marked => (rep.when = "setup" => rep.outcome = "skipped") /\ rep.when # "call"
    /\ Len(results) + Len(item_case_ids(i)) <= MaxResults
    /\ seen' = IF rep.when \in {"setup", "call"} THEN seen \cup {i} ELSE seen
    /\ delivered' = IF records_report(i, rep.when)
                    THEN [delivered EXCEPT !.first = [j \in processed \cup {i} |->
                                                        IF j = i THEN name ELSE @[j]]]
                    ELSE IF i \in processed /\ rep.when \in {"setup", "call"}
                    THEN [delivered EXCEPT !.again = @ \cup {i}]
                    ELSE delivered
    /\ IF records_report(i, rep.when)
       THEN /\ processed' = processed \cup {i}
            /\ results' = add_result(results,
                                     clean_test_ids(item_ids(i)[1]),
                                     get_test_outcome(rep.outcome),
                                     rep.longrepr,
                                     IF item_defect_ids(i) # None /\ item_defect_ids(i)[1] # <<>>
                                     THEN Some(defects_text(item_defect_ids(i)[1]))
                                     ELSE None,
                                     rep.duration,
                                     item_callspec(i))
       ELSE UNCHANGED <<processed, results>>
    /\ UNCHANGED <<pc, raised, testrun_id, testplan_id, skip_marked, requests,
                   config, service, host>>

\* ------------------------------------------------------------ the client

\* get_tests, lines 630-643: the service's answer; the method returns None
\* when it carries an error
get_tests(run) == TestsAnswer(service.tests[run])

\* `if error:` on what get_error returned: None and "" are both falsy
Truthy(opt) == opt # None /\ opt[1] # <<>>

\* one call on self.client: send_get or send_post of a relative url
\* ('endpoint/{}/{}'.format(args)), with the place in the plugin that made it
Request(method, endpoint, args, body, site) ==
    [method |-> method, endpoint |-> endpoint, args |-> args, body |-> body, site |-> site]

\* the state a hook works on: the accumulator, the client's calls, and the
\* exception that ended the hook ("" while it runs)
Raise(st, exc) == [st EXCEPT !.raised = exc]

Sent(st, req) == [st EXCEPT !.requests = Append(@, req)]

\* --------------------------------------------------------- batch publisher

\* an insertion that puts a record before the records of the same case id
RECURSIVE InsertByCaseId_unstable(_, _)
InsertByCaseId_unstable(sorted, r) ==
    IF sorted = <<>> THEN <<r>>
    ELSE IF sorted[Len(sorted)].case_id < r.case_id THEN Append(sorted, r)
    ELSE Append(InsertByCaseId_unstable(SubSeq(sorted, 1, Len(sorted) - 1), r),
                sorted[Len(sorted)])

\* list.sort(key=itemgetter("case_id")), line 407: a stable sort
RECURSIVE InsertByCaseId(_, _)
InsertByCaseId(sorted, r) ==
    IF sorted = <<>> THEN <<r>>
    ELSE IF sorted[Len(sorted)].case_id <= r.case_id THEN Append(sorted, r)
    ELSE Append(InsertByCaseId(SubSeq(sorted, 1, Len(sorted) - 1), r), sorted[Len(sorted)])

RECURSIVE SortByCaseId(_)
SortByCaseId(rs) ==
    IF rs = <<>> THEN <<>>
    ELSE InsertByCaseId(SortByCaseId(SubSeq(rs, 1, Len(rs) - 1)), rs[Len(rs)])

\* [x for x in rs if x.case_id not in ids], ids a list of integers
RECURSIVE WithoutCases(_, _)
WithoutCases(rs, ids) ==
    IF rs = <<>> THEN <<>>
    ELSE (IF \E k \in 1..Len(ids) : ids[k] = Head(rs).case_id THEN <<>> ELSE <<Head(rs)>>)
         \o WithoutCases(Tail(rs), ids)

\* lines 416-420: the case ids of the run's tests whose status is blocked
RECURSIVE blocked_tests_list(_)
blocked_tests_list(tests) ==
    IF tests = <<>> THEN <<>>
    ELSE (IF Head(tests).status_id = STATUS_BLOCKED THEN <<Head(tests).case_id>> ELSE <<>>)
         \o blocked_tests_list(Tail(tests))

\* int(round(x)) of a duration held in tenths of a second: round half to even
RoundTenths(d) ==
    LET q == d \div 10
        r == d % 10
    IN IF r < 5 THEN q
       ELSE IF r > 5 THEN q + 1
       ELSE IF q % 2 = 0 THEN q ELSE q + 1

\* lines 486-491: the elapsed field, None when the duration is 0
elapsed(duration) ==
    IF duration = 0 THEN None
    ELSE Some(IntToText(IF duration < 10 THEN 1 ELSE RoundTenths(duration)) \o <<"s">>)

\* lines 459-483: the indented, size-limited failure text
pytest_result_text(comment) ==
    T_Pytest_result
    \o (IF Len(comment) > COMMENT_SIZE_LIMIT THEN T_Log_truncated ELSE <<>>)
    \o T_indent
    \o Replace(LastChars(comment, COMMENT_SIZE_LIMIT), NL, <<NL>> \o T_indent)

\* lines 450-485: the comment of a payload entry, None when the result has no
\* comment and no custom comment is configured
entry_comment(result) ==
    LET head == IF result.test_parametrize # None /\ result.test_parametrize[1] # <<>>
                THEN T_Test_parametrize \o result.test_parametrize[1] \o <<NL, NL>>
                ELSE <<>>
    IN IF result.comment # <<>>
       THEN Some(head
                 \o (IF Truthy(config.custom_comment)
                     THEN config.custom_comment[1] \o <<NL>> ELSE <<>>)
                 \o pytest_result_text(result.comment))
       ELSE config.custom_comment

\* lines 443-492: one entry of the batch payload
payload_entry(result) ==
    [status_id |-> result.status_id,
     case_id |-> result.case_id,
     defects |-> result.defects,
     version |-> IF config.version # <<>> THEN Some(config.version) ELSE None,
     comment |-> entry_comment(result),
     elapsed |-> elapsed(result.duration)]

payload(rs) == [k \in 1..Len(rs) |-> payload_entry(rs[k])]

\* add_terraform_error_results, lines 312-319: the status is the string '8'
add_terraform_error_results(st, run, test_id, terraform_error, site) ==
    Sent(st, Request("POST", "add_result_for_case", <<IntToText(run), test_id>>,
                     [status_id |-> <<"8">>,
                      comment |-> T_Terraform_Exception_comment \o terraform_error],
                     site))

\* lines 501-505: every element of the response whose comment holds the
\* marker text is reported again, its status_id taken as the case id; a
\* comment of None cannot be searched (TypeError)
RECURSIVE response_loop(_, _, _)
response_loop(st, run, response) ==
    IF response = <<>> \/ st.raised # "" THEN st
    ELSE LET resp == Head(response)
         IN IF resp.comment = None THEN Raise(st, "TypeError")
            ELSE response_loop(
                    IF Contains(resp.comment[1], T_TerraformException)
                    THEN add_terraform_error_results(st, run, IntToText(resp.status_id),
                                                     resp.comment[1], "add_results:505")
                    ELSE st,
                    run, Tail(response))

\* add_results, lines 394-511.  The result holds the hook's state and, in
\* error, what the method returns.  The method raises when get_tests gave
\* None (line 418), on a comment of None (line 503), on an empty response
\* (line 507) and, for a reported error, when its element has no status_code
\* (line 509)
add_results(st, run) ==
    LET sorted == [st EXCEPT !.results = SortByCaseId(@), !.error = None]
    IN IF config.publish_blocked = FALSE
          /\ Truthy(get_tests(run).error)
       THEN \* get_tests returned None: iterating it raises
            Raise(Sent(sorted, Request("GET", "get_tests", <<IntToText(run)>>, None, "add_results:418")),
                  "TypeError")
       ELSE
       LET kept == IF config.publish_blocked = FALSE
                   THEN [Sent(sorted, Request("GET", "get_tests", <<IntToText(run)>>, None,
                                              "add_results:418"))
                           EXCEPT !.results =
                              WithoutCases(@, blocked_tests_list(get_tests(run).tests))]
                   ELSE sorted
           posted == Sent(kept, Request("POST", "add_results_for_cases", <<IntToText(run)>>,
                                        payload(kept.results), "add_results:495"))
           response == BatchAnswer(service.batch[run])
           looped == response_loop(posted, run, response)
       IN IF looped.raised # "" THEN looped
          ELSE IF response = <<>> THEN Raise(looped, "UnboundLocalError")
          ELSE LET resp == response[Len(response)]
               IN IF ~Truthy(resp.error) THEN looped
                  \* line 509 reads resp.status_code before the error is returned
                  ELSE IF resp.status_code = None THEN Raise(looped, "AttributeError")
                  ELSE [looped EXCEPT !.error = resp.error]

\* ---------------------------------------------------------- reconciliation

\* One match of r'case (\d+).*?TerraformException: (.+?)\\n' that starts at
\* index p: None, or the two groups and the index after the match.  `.` does
\* not match a line break, and the pattern ends with a backslash and an n.
TerraformMatchAt(s, p) ==
    IF ~IsPrefixAt(s, T_case_sp, p) THEN None
    ELSE
    LET d == p + Len(T_case_sp)
        q == DigitsEnd(s, d)
        w == Len(T_TerraformException_colon)
        Ends(j) == {e \in (j + w + 1)..Len(s) :
                       IsPrefixAt(s, T_backslash_n, e) /\ NoNewline(s, j + w, e - 1)}
        js == {j \in q..Len(s) :
                  /\ IsPrefixAt(s, T_TerraformException_colon, j)
                  /\ NoNewline(s, q, j - 1)
                  /\ Ends(j) # {}}
    IN IF q = d \/ js = {} THEN None
       ELSE LET j == SetMin(js)
                e == SetMin(Ends(j))
            IN Some([test_id |-> SubSeq(s, d, q - 1),
                     error |-> SubSeq(s, j + w, e - 1),
                     end |-> e + Len(T_backslash_n)])

\* re.finditer: the matches from left to right, none overlapping
RECURSIVE TerraformMatches(_, _)
TerraformMatches(s, from) ==
    LET ps == {p \in from..Len(s) : TerraformMatchAt(s, p) # None}
    IN IF ps = {} THEN <<>>
       ELSE LET m == TerraformMatchAt(s, SetMin(ps))[1]
            IN <<m>> \o TerraformMatches(s, m.end)

\* d[key] = value on a dict held as its items in insertion order
DictSet(d, key, value) ==
    IF \E k \in 1..Len(d) : d[k].test_id = key
    THEN [k \in 1..Len(d) |->
            IF d[k].test_id = key THEN [test_id |-> key, error |-> value] ELSE d[k]]
    ELSE Append(d, [test_id |-> key, error |-> value])

RECURSIVE DictOfMatches(_, _)
DictOfMatches(d, ms) ==
    IF ms = <<>> THEN d
    ELSE DictOfMatches(DictSet(d, Head(ms).test_id, Head(ms).error), Tail(ms))

\* extract_terraform_errors, lines 303-310
extract_terraform_errors(error_message) ==
    DictOfMatches(<<>>, TerraformMatches(error_message, 1))

\* the parts of error.split(')') that hold 'case', line 296
RECURSIVE case_parts(_)
case_parts(parts) ==
    IF parts = <<>> THEN <<>>
    ELSE (IF Contains(Head(parts), T_case) THEN <<Head(parts)>> ELSE <<>>)
         \o case_parts(Tail(parts))

\* line 296 raises IndexError on a part that holds 'case' but not 'case '
invalid_test_ids_raises(error) ==
    LET parts == case_parts(Split(error, <<")">>))
    IN \E k \in 1..Len(parts) : Len(Split(parts[k], T_case_sp)) < 2

\* line 296: part.split('case ')[1].split(' ')[0] of every such part
invalid_test_ids(error) ==
    LET parts == case_parts(Split(error, <<")">>))
    IN [k \in 1..Len(parts) |-> Split(Split(parts[k], T_case_sp)[2], <<" ">>)[1]]

\* line 370: drop a leading "C"
strip_C(id) == IF StartsWith(id, <<"C">>) THEN Tail(id) ELSE id

\* Python's == between an integer case id and a string id: never equal
PyEqIntStr(n, text) == FALSE

\* line 371: the results whose integer case_id is not in the list of strings
RECURSIVE valid_results(_, _)
valid_results(rs, ids) ==
    IF rs = <<>> THEN <<>>
    ELSE (IF \E k \in 1..Len(ids) : PyEqIntStr(Head(rs).case_id, ids[k])
          THEN <<>> ELSE <<Head(rs)>>)
         \o valid_results(Tail(rs), ids)

\* lines 373-392: one add_results_for_cases request per result of rs; the
\* answer to each is only logged
RECURSIVE post_error_results(_, _, _, _)
post_error_results(st, run, rs, error) ==
    IF rs = <<>> THEN st
    ELSE post_error_results(
            Sent(st, Request("POST", "add_results_for_cases", <<IntToText(run)>>,
                             <<[case_id |-> Head(rs).case_id,
                                status_id |-> STATUS_FAILED,
                                comment |-> error,
                                defects |-> <<>>]>>,
                             "add_error_results:381")),
            run, Tail(rs), error)

\* add_error_results, lines 357-392
add_error_results(st, run, ids, error) ==
    LET stripped == [k \in 1..Len(ids) |-> strip_C(ids[k])]
    IN post_error_results(st, run, valid_results(st.results, stripped), error)

\* lines 290-291
RECURSIVE report_terraform_errors(_, _, _)
report_terraform_errors(st, run, items) ==
    IF items = <<>> THEN st
    ELSE report_terraform_errors(
            add_terraform_error_results(st, run, Head(items).test_id, Head(items).error,
                                        "publish_results_for_run:291"),
            run, Tail(items))

\* lines 298-299
RECURSIVE report_invalid_ids(_, _, _, _)
report_invalid_ids(st, run, ids, error) ==
    IF ids = <<>> THEN st
    ELSE report_invalid_ids(add_error_results(st, run, <<Head(ids)>>, error),
                            run, Tail(ids), error)

\* publish_results_for_run, lines 284-301
publish_results_for_run(st, run) ==
    LET added == add_results(st, run)
    IN IF added.raised # "" \/ ~Truthy(added.error) THEN added
       ELSE LET error == added.error[1]
                terraform_errors == extract_terraform_errors(error)
            IN IF terraform_errors # <<>>
               THEN report_terraform_errors(added, run, terraform_errors)
               ELSE IF invalid_test_ids_raises(error) THEN Raise(added, "IndexError")
               ELSE report_invalid_ids(added, run, invalid_test_ids(error), error)

\* ------------------------------------------------------- run and plan helpers

\* get_available_testruns, lines 610-628: the ids of the plan's open runs, in
\* plan order; an empty list when the query fails
RECURSIVE open_runs(_)
open_runs(runs) ==
    IF runs = <<>> THEN <<>>
    ELSE (IF ~Head(runs).is_completed THEN <<Head(runs).id>> ELSE <<>>)
         \o open_runs(Tail(runs))

get_available_testruns(plan) ==
    IF Truthy(plan.error) THEN <<>> ELSE open_runs(Concat(plan.entries))

\* is_testrun_available / is_testplan_available, lines 576-608
is_available(response) == ~Truthy(response.error) /\ response.is_completed = FALSE

\* the hook's state at its start
HookState ==
    [results |-> results, requests |-> requests, raised |-> "", error |-> None]

\* lines 271-272: publish to each run in turn; an exception ends the loop
RECURSIVE publish_each(_, _)
publish_each(st, runs) ==
    IF runs = <<>> \/ st.raised # "" THEN st
    ELSE publish_each(publish_results_for_run(st, Head(runs)), Tail(runs))

\* lines 266-274
publish(st) ==
    IF testrun_id # 0 THEN publish_results_for_run(st, testrun_id)
    ELSE IF testplan_id # 0
    THEN publish_each(
            Sent(st, Request("GET", "get_plan", <<IntToText(testplan_id)>>, None,
                             "get_available_testruns:616")),
            get_available_testruns(PlanAnswer(service.plan)))
    ELSE st

\* lines 276-280: close_test_run / close_test_plan; the answer is only printed
close(st) ==
    IF st.raised # "" \/ ~config.close_on_complete THEN st
    ELSE IF testrun_id # 0
    THEN Sent(st, Request("POST", "close_run", <<IntToText(testrun_id)>>, None,
                          "close_test_run:549"))
    ELSE IF testplan_id # 0
    THEN Sent(st, Request("POST", "close_plan", <<IntToText(testplan_id)>>, None,
                          "close_test_plan:565"))
    ELSE st

\* line 261
NoResults == "Exception: No test results to publish in TestRail"

\* pytest_sessionfinish without the test for an empty accumulator (line 259)
pytest_sessionfinish_unchecked ==
    /\ pc = "run"
    /\ LET st == close(publish(HookState))
       IN /\ results' = st.results
          /\ requests' = st.requests
          /\ raised' = st.raised
          /\ pc' = IF st.raised = "" THEN "done" ELSE "sessionfinish_raised"
    /\ UNCHANGED <<testrun_id, testplan_id, processed, skip_marked, seen, delivered,
                   config, service, host>>

\* pytest_sessionfinish, lines 255-282
pytest_sessionfinish ==
    /\ pc = "run"
    /\ IF results = <<>>
       THEN /\ pc' = "sessionfinish_raised"
            /\ raised' = NoResults
            /\ UNCHANGED <<results, requests>>
       ELSE LET st == close(publish(HookState))
            IN /\ results' = st.results
               /\ requests' = st.requests
               /\ raised' = st.raised
               /\ pc' = IF st.raised = "" THEN "done" ELSE "sessionfinish_raised"
    /\ UNCHANGED <<testrun_id, testplan_id, processed, skip_marked, seen, delivered,
                   config, service, host>>

\* ------------------------------------------------------------- collection

\* get_testrail_keys, lines 134-147: the marked items, in order
marked_items == {i \in host.items : item_ids(i) # None}

RECURSIVE tr_keys_from(_)
tr_keys_from(i) ==
    IF i > NumItems THEN <<>>
    ELSE (IF i \in marked_items THEN item_case_ids(i) ELSE <<>>) \o tr_keys_from(i + 1)

\* line 188
tr_keys == tr_keys_from(1)

\* lines 195-201: the marked items none of whose case ids is a test of the run
missing_items(tests) ==
    {i \in marked_items :
        ~\E k \in 1..Len(item_case_ids(i)) : \E t \in 1..Len(tests) :
            tests[t].case_id = item_case_ids(i)[k]}

\* create_test_run, lines 513-542: the request
add_run_request ==
    Request("POST", "add_run", <<IntToText(config.project_id)>>,
            [suite_id |-> config.suite_id,
             include_all |-> config.include_all,
             case_ids |-> tr_keys],
            "create_test_run:530")

\* pytest_collection_modifyitems, lines 185-215
pytest_collection_modifyitems ==
    /\ pc = "collect"
    /\ LET asked_plan == testplan_id # 0
           plan_ok == asked_plan /\ is_available(PlanAnswer(service.plan))
           asked_run == ~plan_ok /\ testrun_id # 0
           run_ok == asked_run /\ is_available(RunAnswer(service.run))
           asked_tests == run_ok /\ config.skip_missing
           tests_failed == asked_tests /\ Truthy(get_tests(testrun_id).error)
           create == ~plan_ok /\ ~run_ok
           created == create /\ ~Truthy(AddRunAnswer(service.add_run).error)
           ids_raise == \E i \in marked_items : clean_test_ids_raises(item_ids(i)[1])
       IN IF ids_raise
          THEN /\ pc' = "collection_raised"
               /\ raised' = "AttributeError"
               /\ UNCHANGED <<testrun_id, testplan_id, skip_marked, requests>>
          ELSE
          /\ requests' = requests
                \o (IF asked_plan
                    THEN <<Request("GET", "get_plan", <<IntToText(testplan_id)>>, None,
                                   "is_testplan_available:599")>> ELSE <<>>)
                \o (IF asked_run
                    THEN <<Request("GET", "get_run", <<IntToText(testrun_id)>>, None,
                                   "is_testrun_available:582")>> ELSE <<>>)
                \o (IF asked_tests
                    THEN <<Request("GET", "get_tests", <<IntToText(testrun_id)>>, None,
                                   "pytest_collection_modifyitems:196")>> ELSE <<>>)
                \o (IF create THEN <<add_run_request>> ELSE <<>>)
          /\ testrun_id' = IF plan_ok THEN 0
                           ELSE IF created THEN AddRunAnswer(service.add_run).id
                           ELSE testrun_id
          /\ testplan_id' = IF run_ok THEN 0 ELSE testplan_id
          /\ skip_marked' = IF asked_tests /\ ~tests_failed
                            THEN missing_items(get_tests(testrun_id).tests)
                            ELSE skip_marked
          /\ raised' = IF tests_failed THEN "TypeError" ELSE ""
          /\ pc' = IF tests_failed THEN "collection_raised" ELSE "run"
    /\ UNCHANGED <<results, processed, seen, delivered, config, service, host>>

\* ------------------------------------------------------- the specification

\* the plugin after __init__, lines 151-170
Init ==
    /\ \E s \in Sessions :
        /\ config = s.config
        /\ service = s.service
        /\ host = s.host
    /\ pc = "collect"
    /\ raised = ""
    /\ testrun_id = config.run_id
    /\ testplan_id = config.plan_id
    /\ results = <<>>
    /\ processed = {}
    /\ skip_marked = {}
    /\ requests = <<>>
    /\ seen = {}
    /\ delivered = [first |-> [j \in {} |-> ""], again |-> {}]

Next ==
    \/ pytest_collection_modifyitems
    \/ \E i \in ItemIds : \E name \in AllReports : pytest_runtest_makereport(i, name)
    \/ pytest_sessionfinish

Spec == Init /\ [][Next]_vars

\* ----------------------------------------------------------------- claims

\* how many records of rs are for case c, and how often c is among ids
CountCase(rs, c) == Cardinality({k \in 1..Len(rs) : rs[k].case_id = c})
Occurrences(ids, c) == Cardinality({k \in 1..Len(ids) : ids[k] = c})

\* over the items of S: how many case ids they carry, and how often case c
RECURSIVE SumCaseIds(_)
SumCaseIds(S) ==
    IF S = {} THEN 0
    ELSE LET i == CHOOSE j \in S : TRUE
         IN Len(item_case_ids(i)) + SumCaseIds(S \ {i})

RECURSIVE SumOccurrences(_, _)
SumOccurrences(S, c) ==
    IF S = {} THEN 0
    ELSE LET i == CHOOSE j \in S : TRUE
         IN Occurrences(item_case_ids(i), c) + SumOccurrences(S \ {i}, c)

KnownCases ==
    {results[k].case_id : k \in 1..Len(results)}
    \cup UNION {{item_case_ids(i)[k] : k \in 1..Len(item_case_ids(i))} : i \in ItemIds}

\* C1: while reports arrive, the accumulator holds one record per (item,
\* case id) pair of the items a setup or call report was delivered for: its
\* length is the sum of those items' numbers of case ids, and each case id
\* has as many records as such items carry it; so a further report for a
\* recorded item adds nothing.
C1_OneRecordPerItemAndCase ==
    pc = "run" =>
        /\ Len(results) = SumCaseIds(seen)
        /\ \A c \in KnownCases :
              CountCase(results, c) = SumOccurrences(seen, c)

\* C1 witness: every item has been delivered, the unmarked one included, and
\* the three marked items have their four records
C1_Witness ==
    /\ pc = "run"
    /\ seen = ItemIds
    /\ NumItems >= 4
    /\ Len(results) = 4
    /\ CountCase(results, 10) = 2

\* the hook pytest_sessionfinish has run
Finished == pc \in {"done", "sessionfinish_raised"}

\* the requests made at one place of the plugin for run r, in order
SiteRequests(site, r) ==
    SelectSeq(requests, LAMBDA q : q.site = site /\ q.args[1] = IntToText(r))

\* the batch of add_results was sent to run r
BatchSentTo(r) == SiteRequests("add_results:495", r) # <<>>

\* the service error of the answer to run r's batch: the error of the last
\* element of the answer, None when the answer carries none (or its elements
\* could not be read)
BatchError(r) ==
    LET response == BatchAnswer(service.batch[r])
    IN IF response = <<>> \/ \E k \in 1..Len(response) : response[k].comment = None
       THEN None
       ELSE response[Len(response)].error

\* run r's batch was rejected and its error text names no Terraform case
GenericRejection(r) ==
    /\ BatchSentTo(r)
    /\ Truthy(BatchError(r))
    /\ extract_terraform_errors(BatchError(r)[1]) = <<>>
    /\ ~invalid_test_ids_raises(BatchError(r)[1])

\* C2 (as claimed): after a batch rejected with a generic error, the fallback
\* submissions to that run are one per offending case id of the error text,
\* each for that case id, with status failed, the error text as comment and
\* empty defects.
C2_FallbackPerOffendingCase ==
    Finished =>
        \A r \in RunIds : GenericRejection(r) =>
            LET error == BatchError(r)[1]
                ids == invalid_test_ids(error)
                subs == SiteRequests("add_error_results:381", r)
            IN /\ Len(subs) = Len(ids)
               /\ \A k \in 1..Len(subs) :
                     /\ Len(subs[k].body) = 1
                     /\ IntToText(subs[k].body[1].case_id) = strip_C(ids[k])
                     /\ subs[k].body[1].status_id = STATUS_FAILED
                     /\ subs[k].body[1].comment = error
                     /\ subs[k].body[1].defects = <<>>

RECURSIVE CaseIdsOf(_)
CaseIdsOf(rs) == IF rs = <<>> THEN <<>> ELSE <<Head(rs).case_id>> \o CaseIdsOf(Tail(rs))

\* C3 (as claimed): with publish_blocked off, the batch sent to each run holds
\* exactly the results accumulated before session finish whose case is not
\* blocked in that run.
C3_BatchIsResultsNotBlockedInRun ==
    [][(pc = "run" /\ Finished' /\ ~config.publish_blocked) =>
          \A r \in RunIds : \A k \in 1..Len(requests') :
              (requests'[k].site = "add_results:495" /\ requests'[k].args[1] = IntToText(r)) =>
                  CaseIdsOf(requests'[k].body)
                     = CaseIdsOf(WithoutCases(SortByCaseId(results),
                                              blocked_tests_list(get_tests(r).tests)))]_vars

\* C4 (as claimed): every single-result submission to a run comes after a
\* batch to that run whose answer carried a service error.
C4_SingleOnlyAfterRejectedBatch ==
    \A r \in RunIds : \A k \in 1..Len(requests) :
        (/\ requests[k].args[1] = IntToText(r)
         /\ \/ requests[k].endpoint = "add_result_for_case"
            \/ requests[k].site = "add_error_results:381") =>
            /\ \E j \in 1..(k - 1) :
                  /\ requests[j].site = "add_results:495"
                  /\ requests[j].args[1] = IntToText(r)
            /\ BatchAnswer(service.batch[r]) # <<>>
            /\ Truthy(BatchAnswer(service.batch[r])[Len(BatchAnswer(service.batch[r]))].error)

\* C5 (as claimed): the collection hook never raises, and session finish
\* raises only for an empty accumulator.
C5_HooksRaiseOnlyNoResults ==
    /\ pc # "collection_raised"
    /\ pc = "sessionfinish_raised" => raised = NoResults

\* create_test_run was called in collection
CreateRunInvoked == \E k \in 1..Len(requests) : requests[k].endpoint = "add_run"

\* C6 (as claimed): when create_run was invoked and rejected, the run id is 0
\* after collection and session finish submits no result.
C6_RejectedCreateLeavesNoRun ==
    (pc # "collect" /\ CreateRunInvoked /\ Truthy(AddRunAnswer(service.add_run).error)) =>
        /\ testrun_id = 0
        /\ \A k \in 1..Len(requests) :
              requests[k].endpoint \notin {"add_results_for_cases", "add_result_for_case"}

\* C7 (as claimed): after collection at most one of the run id and the plan id
\* is non-zero.
C7_OneModeAfterCollection ==
    pc # "collect" => (testrun_id = 0 \/ testplan_id = 0)

\* C8: session finish on an empty accumulator raises the "no results" error
\* and sends no request, whatever the run id, plan id and close setting.
C8_EmptyAccumulatorRaisesSilently ==
    [][(pc = "run" /\ results = <<>> /\ pc' # "run") =>
          /\ pc' = "sessionfinish_raised"
          /\ raised' = NoResults
          /\ requests' = requests]_vars

\* C8 witness: the hook raised on an empty accumulator in a session with a
\* run selected and close-on-complete on
C8_Witness ==
    /\ pc = "sessionfinish_raised"
    /\ raised = NoResults
    /\ results = <<>>
    /\ testrun_id # 0
    /\ config.close_on_complete

\* the runs the batches of add_results went to, in order
BatchRuns ==
    LET batches == SelectSeq(requests, LAMBDA q : q.site = "add_results:495")
    IN [k \in 1..Len(batches) |-> batches[k].args[1]]

ExpectedRuns ==
    IF testrun_id # 0 THEN <<IntToText(testrun_id)>>
    ELSE IF testplan_id # 0
    THEN LET open == get_available_testruns(PlanAnswer(service.plan))
         IN [k \in 1..Len(open) |-> IntToText(open[k])]
    ELSE <<>>

\* C9 (as claimed): session finish with a non-empty accumulator sends a batch
\* to exactly the selected run, or to each open run of the selected plan once
\* in plan order, or to none when neither is selected, and then completes.
C9_BatchGoesToSelectedRuns ==
    (Finished /\ raised # NoResults) =>
        /\ BatchRuns = ExpectedRuns
        /\ (testrun_id = 0 /\ testplan_id = 0) => pc = "done"

\* run r's batch was rejected and its error text names Terraform cases
TerraformRejection(r) ==
    /\ BatchSentTo(r)
    /\ Truthy(BatchError(r))
    /\ extract_terraform_errors(BatchError(r)[1]) # <<>>

\* C10 (as claimed): after a batch rejected with an error text that names
\* Terraform cases, reconciliation sends one single-result request per named
\* case, to that case of the run, with the Terraform status and "Terraform
\* Exception: " followed by the extracted message, and no failed-status
\* fallback.
C10_OneSubmissionPerTerraformCase ==
    Finished =>
        \A r \in RunIds : TerraformRejection(r) =>
            LET cases == extract_terraform_errors(BatchError(r)[1])
                subs == SiteRequests("publish_results_for_run:291", r)
            IN /\ Len(subs) = Len(cases)
               /\ \A k \in 1..Len(subs) :
                     /\ subs[k].method = "POST"
                     /\ subs[k].endpoint = "add_result_for_case"
                     /\ subs[k].args = <<IntToText(r), cases[k].test_id>>
                     /\ subs[k].body.status_id = IntToText(STATUS_TERRAFORMERROR)
                     /\ subs[k].body.comment = T_Terraform_Exception_comment \o cases[k].error
               /\ \A j, k \in 1..Len(cases) : cases[j].test_id = cases[k].test_id => j = k
               /\ SiteRequests("add_error_results:381", r) = <<>>

\* C11 (as claimed): session finish only reads the accumulator; its records
\* after the hook are the records before it, in the same order.
C11_SessionFinishReadsOnly ==
    [][(pc = "run" /\ pc' # "run") => results' = results]_vars

\* the payload entries of the records of rs for case c, in the order of rs
PayloadOfCase(rs, c) == payload(SelectSeq(rs, LAMBDA r : r.case_id = c))

\* the entries of a batch body for case c, in the order of the body
EntriesOfCase(body, c) == SelectSeq(body, LAMBDA e : e.case_id = c)

\* C12: every batch payload is in non-decreasing case_id order, and its
\* entries for one case id are those of the accumulator's records for that
\* case in the order they were appended; a case is absent only when blocked
\* cases are filtered.
C12_BatchIsStablySorted ==
    [][(pc = "run" /\ pc' # "run") =>
          \A k \in 1..Len(requests') :
              requests'[k].site = "add_results:495" =>
                  LET body == requests'[k].body
                  IN /\ \A j \in 1..(Len(body) - 1) : body[j].case_id <= body[j + 1].case_id
                     /\ \A c \in KnownCases :
                           \/ EntriesOfCase(body, c) = PayloadOfCase(results, c)
                           \/ /\ ~config.publish_blocked
                              /\ EntriesOfCase(body, c) = <<>>]_vars

\* C12 witness: a batch was sent whose payload holds case 5 and then two
\* different entries for case 10, from the plain and the parametrized item
C12_Witness ==
    /\ pc = "done"
    /\ \E k \in 1..Len(requests) :
          /\ requests[k].site = "add_results:495"
          /\ LET body == requests[k].body
             IN /\ Len(body) >= 3
                /\ body[1].case_id = 5
                /\ \E j \in 2..(Len(body) - 1) :
                      /\ body[j].case_id = 10
                      /\ body[j + 1].case_id = 10
                      /\ body[j].comment # body[j + 1].comment

\* the status add_result stores for a status and a comment text
StatusRecorded(status, comment) ==
    IF status = STATUS_FAILED /\ Contains(comment, T_TerraformException)
    THEN STATUS_TERRAFORMERROR ELSE status

\* the text add_result stores for a longrepr
CommentRecorded(longrepr) == IF longrepr = None THEN T_None ELSE longrepr[1]

\* the records of item i in the accumulator (items that share a case id
\* differ in their parameters)
RecordsOf(i) ==
    SelectSeq(results, LAMBDA r : /\ \E k \in 1..Len(item_case_ids(i)) :
                                        r.case_id = item_case_ids(i)[k]
                                  /\ r.test_parametrize = item_callspec(i))

\* C14: while reports arrive, the records of every recorded item are those
\* built from the first setup or call report delivered for it, one per case
\* id, with the status of that report's outcome, whatever reports followed.
C14_FirstPhaseWins ==
    pc = "run" =>
        \A i \in processed :
            LET rep == ReportOf(delivered.first[i])
                recs == RecordsOf(i)
            IN /\ rep.when \in {"setup", "call"}
               /\ Len(recs) = Len(item_case_ids(i))
               /\ \A k \in 1..Len(recs) :
                     /\ recs[k].case_id = item_case_ids(i)[k]
                     /\ recs[k].comment = CommentRecorded(rep.longrepr)
                     /\ recs[k].duration = rep.duration
                     /\ recs[k].status_id
                           = StatusRecorded(get_test_outcome(rep.outcome), recs[k].comment)

\* C14 witness: item 2 was recorded as passed from its setup report, the
\* Terraform-failed item 1 from its setup report too, and both got a later
\* setup or call report
C14_Witness ==
    /\ pc = "run"
    /\ {1, 2} \subseteq delivered.again
    /\ delivered.first[2] = "setup_passed"
    /\ delivered.first[1] = "setup_terraform"
    /\ Len(results) = 3
    /\ \A k \in 1..3 : results[k].status_id
                          = IF results[k].case_id = 10 THEN STATUS_TERRAFORMERROR
                            ELSE STATUS_PASSED

\* ------------------------------------------------- add_result on its own

\* the arguments of one call of add_result: ids, status and comment; the
\* comment is None, a text, or an object given by the text str makes of it
AddResultIds == {<<>>, <<10>>, <<5, 17>>, <<10, 10, 12>>}

AddResultStatuses ==
    {STATUS_PASSED, STATUS_BLOCKED, STATUS_FAILED, STATUS_DEFERRED, STATUS_NA,
     STATUS_TERRAFORMERROR}

AddResultComments ==
    {None, Some(<<>>), Some(S_assert), Some(S_terraform), Some(S_skip),
     Some(T_TerraformException), Some(T_Terraform_Exception_comment)}

\* a plugin with an empty or a filled accumulator, about to get one call of
\* add_result; host holds the caller's arguments
InitAddResult ==
    /\ \E ids \in AddResultIds, status \in AddResultStatuses, comment \in AddResultComments :
          host = [test_ids |-> ids, status |-> status, comment |-> comment]
    /\ \E s \in ReportSessions :
          /\ config = s.config
          /\ service = s.service
    /\ results \in {<<>>, add_result(<<>>, <<7>>, STATUS_FAILED, None, None, 0, None)}
    /\ pc = "add_result"
    /\ raised = ""
    /\ testrun_id = config.run_id
    /\ testplan_id = config.plan_id
    /\ processed = {}
    /\ skip_marked = {}
    /\ requests = <<>>
    /\ seen = {}
    /\ delivered = [first |-> [j \in {} |-> ""], again |-> {}]

\* self.add_result(test_ids, status, comment=comment), lines 324-354
add_result_call ==
    /\ pc = "add_result"
    /\ results' = add_result(results, host.test_ids, host.status, host.comment, None, 0, None)
    /\ pc' = "added"
    /\ UNCHANGED <<raised, testrun_id, testplan_id, processed, skip_marked, requests,
                   seen, delivered, config, service, host>>

NextAddResult == add_result_call

SpecAddResult == InitAddResult /\ [][NextAddResult]_vars

\* the records the call of add_result appended
Appended == SubSeq(results, Len(results) - Len(host.test_ids) + 1, Len(results))

\* the call was made with FAILED and a comment that holds the marker text
MarkedFailure ==
    /\ host.status = STATUS_FAILED
    /\ Contains(CommentRecorded(host.comment), T_TerraformException)

\* C13: a call of add_result with status FAILED and a comment holding
\* "TerraformException" appends only records with the Terraform status, none
\* with FAILED; any other call appends records with the status it was given.
C13_MarkedFailureBecomesTerraform ==
    pc = "added" =>
        /\ Len(Appended) = Len(host.test_ids)
        /\ \A k \in 1..Len(Appended) :
              /\ Appended[k].case_id = host.test_ids[k]
              /\ IF MarkedFailure
                 THEN Appended[k].status_id = STATUS_TERRAFORMERROR
                      /\ Appended[k].status_id # STATUS_FAILED
                 ELSE Appended[k].status_id = host.status

\* C13 witness: a call with FAILED, three ids and a pytest failure text that
\* holds the marker, after which the last three records have the Terraform
\* status
C13_Witness ==
    /\ pc = "added"
    /\ host.status = STATUS_FAILED
    /\ host.comment = Some(S_terraform)
    /\ host.test_ids = <<10, 10, 12>>
    /\ Len(results) = 4
    /\ \A k \in 2..4 : results[k].status_id = STATUS_TERRAFORMERROR

=============================================================================
